---- MODULE Spec2Model ----
(***************************************************************************)
(* The signaling relay of crates/server/src/main.rs: the identity counter, *)
(* the registry of connections behind one tokio RwLock, and per connection *)
(* the handler (handle_connection), its idle-timeout task, its heartbeat   *)
(* task and its dispatcher (forward_task).                                 *)
(*                                                                         *)
(* One action is one run of a task between two await points.  The registry *)
(* is only touched under the lock and no guard but one outlives the await  *)
(* that took it, so a lock section is one step; the exception is the read  *)
(* guard of the idle-timeout task (line 186), which is alive while the     *)
(* task awaits the write lock (line 189), and is kept in read_guards.      *)
(***************************************************************************)
EXTENDS Integers, Sequences, FiniteSets, TLC

\* ------------------------------------------------------------- bounds
MaxConn == 3
MaxFrames == 3
MaxTicks == 3
MaxPeers == 2
MaxDispatchTicks == 1
MaxDispatchFrames == 1
MaxIdleFrames == 2

\* -------------------------------------------------- program constants
FirstId == 1
CheckInterval == 30
HeartbeatInterval == 30
IdleTimeout == 60

\* Handler slots: the h-th WebSocket the server upgrades.
Conn == 1..MaxConn
\* An id the counter never hands out within the bounds (the spec's 999).
AbsentId == FirstId + MaxConn
Ids == FirstId..AbsentId
NoId == FirstId - 1

VARIABLES
  NEXT_USER_ID,    \* the AtomicUsize
  users,           \* the HashMap behind the RwLock: id -> ConnectionState
  read_guards,     \* tasks holding a read guard across an await
  write_waiters,   \* tasks queued for the write lock
  now,             \* the clock, in seconds
  pc,              \* where each handler is
  my_id,           \* each handler's id
  cur,             \* the inbound frame each handler read last
  chan,            \* each handler's mpsc channel: frames not yet received
  rx_open,         \* whether the channel's receiver is alive
  enq,             \* history: every frame enqueued on the channel, in order
  stream,          \* history: every frame written to the WebSocket, in order
  timeout_task,
  heartbeat_task,
  forward_task,
  timeout_at,      \* when each timeout task's interval ticks next
  heartbeat_at,    \* when each heartbeat task's interval ticks next
  frames           \* inbound frames read so far (bounded by MaxFrames)

vars == <<NEXT_USER_ID, users, read_guards, write_waiters, now, pc, my_id, cur,
          chan, rx_open, enq, stream, timeout_task, heartbeat_task,
          forward_task, timeout_at, heartbeat_at, frames>>

lock == <<read_guards, write_waiters>>
tasks == <<timeout_task, heartbeat_task, forward_task>>
timers == <<timeout_at, heartbeat_at>>
queues == <<chan, enq>>

\* ------------------------------------------------------------ messages
PeerStateChange(f, t, s) ==
  [type |-> "PeerStateChange", from_id |-> f, to_id |-> t, state |-> s]

ConnectionRequest(f, t) ==
  [type |-> "ConnectionRequest", from_id |-> f, to_id |-> t]

ConnectionResponse(f, a) ==
  [type |-> "ConnectionResponse", from_id |-> f, accepted |-> a]

RTCOffer(f, t, o) ==
  [type |-> "RTCOffer", from_id |-> f, to_id |-> t, offer |-> o]

RTCAnswer(f, t, a) ==
  [type |-> "RTCAnswer", from_id |-> f, to_id |-> t, answer |-> a]

RTCCandidate(f, t, c) ==
  [type |-> "RTCCandidate", from_id |-> f, to_id |-> t, candidate |-> c]

Welcome(id) == [type |-> "Welcome", user_id |-> id]

\* format!("User {}", id)
UserName(id) == <<"User ", id>>

User(id) == [id |-> id, name |-> UserName(id)]

UserList(us) == [type |-> "UserList", users |-> us]

MessageTypes ==
  {"Welcome", "UserList", "PeerStateChange", "ConnectionRequest",
   "ConnectionResponse", "RTCOffer", "RTCAnswer", "RTCCandidate"}

\* A text is a JSON document: the object it denotes, and whether it is written
\* the way serde_json writes it (field order, spacing, no unknown fields).
\* serde_json::to_string
to_string(m) == [json |-> m, canonical |-> TRUE]

\* serde_json::from_str::<Message>: the message, or nothing for a document
\* that is no Message.
from_str(text) ==
  IF text.json.type \in MessageTypes THEN {text.json} ELSE {}

\* WsMessage
WsText(text) == [ws |-> "Text", text |-> text]
WsPing == [ws |-> "Ping"]
WsPong == [ws |-> "Pong"]
WsClose == [ws |-> "Close"]
WsBinary == [ws |-> "Binary"]
NoFrame == [ws |-> "None"]

\* ------------------------------------------------------------ registry
Registered == DOMAIN users

ConnectionState(t, h) == [last_activity |-> t, tx |-> h, connections |-> {}]

\* HashMap::insert
insert(m, id, st) ==
  [i \in DOMAIN m \cup {id} |-> IF i = id THEN st ELSE m[i]]

\* A removal that takes the records of the peers of id along with it.
remove_with_peers(m, id) ==
  [i \in DOMAIN m \ ({id} \cup (IF id \in DOMAIN m THEN m[id].connections ELSE {}))
     |-> m[i]]

\* HashMap::remove
remove(m, id) == [i \in DOMAIN m \ {id} |-> m[i]]

\* RwLock::read is granted unless a writer holds or waits for the lock; the
\* lock hands out permits first come first served, and a waiting writer has
\* taken the free ones.
CanRead == write_waiters = {}

\* RwLock::write is granted when no guard is alive.
CanWrite == read_guards = {} /\ write_waiters = {}

\* UnboundedSender::send on each slot's channel: out[h] are the frames sent to
\* slot h, kept if the receiver is alive and lost (Err, ignored) if not.
Deliver(q, out) ==
  [h \in Conn |-> IF rx_open[h] THEN q[h] \o out[h] ELSE q[h]]

Nothing == [h \in Conn |-> <<>>]

SendAll(out) ==
  /\ chan' = Deliver(chan, out)
  /\ enq' = Deliver(enq, out)

\* One frame to the channel of record id, if the registry has it.
ToId(id, frame) ==
  [h \in Conn |->
     IF id \in Registered /\ users[id].tx = h THEN <<frame>> ELSE <<>>]

\* state.last_activity = Instant::now(), if the record exists
touch(m, id) ==
  IF id \in DOMAIN m THEN [m EXCEPT ![id].last_activity = now] ELSE m

\* broadcast_user_list: the frames it sends, one UserList per record.
broadcast_user_list(m) ==
  LET message == WsText(to_string(UserList({User(id) : id \in DOMAIN m})))
  IN [h \in Conn |->
        IF \E id \in DOMAIN m : m[id].tx = h THEN <<message>> ELSE <<>>]

\* ------------------------------------------------------------- handler
\* NEXT_USER_ID.fetch_add(1, Relaxed): the value read and the value stored.
\* A counter read and written back in two steps by racing accepts: the
\* increment of one is lost.
fetch_add_lost(c) == [ret |-> c, new |-> IF c = FirstId THEN c + 1 ELSE c]

fetch_add(c) == [ret |-> c, new |-> c + 1]

\* line 163.  Slots are taken in order: slot h is the h-th accepted socket.
Accept(h) ==
  /\ pc[h] = "init"
  /\ IF h = 1 THEN TRUE ELSE pc[h - 1] # "init"
  /\ my_id' = [my_id EXCEPT ![h] = fetch_add(NEXT_USER_ID).ret]
  /\ NEXT_USER_ID' = fetch_add(NEXT_USER_ID).new
  /\ pc' = [pc EXCEPT ![h] = "insert"]
  /\ UNCHANGED <<users, lock, now, cur, queues, rx_open, stream, tasks, timers,
                 frames>>

\* lines 165-211: the channel is made, the record is inserted and the two
\* timer tasks are spawned; an interval's first tick is immediate.
Insert(h) ==
  /\ pc[h] = "insert"
  /\ CanWrite
  /\ users' = insert(users, my_id[h], ConnectionState(now, h))
  /\ timeout_task' = [timeout_task EXCEPT ![h] = "running"]
  /\ heartbeat_task' = [heartbeat_task EXCEPT ![h] = "running"]
  /\ timeout_at' = [timeout_at EXCEPT ![h] = now]
  /\ heartbeat_at' = [heartbeat_at EXCEPT ![h] = now]
  /\ rx_open' = [rx_open EXCEPT ![h] = TRUE]
  /\ pc' = [pc EXCEPT ![h] = "welcome"]
  /\ UNCHANGED <<NEXT_USER_ID, lock, now, my_id, cur, queues, stream,
                 forward_task, frames>>

\* A handler that enqueues the Welcome on the connection's channel and leaves
\* the write to the dispatcher.
SendWelcomeQueued(h, ok) ==
  /\ pc[h] = "welcome"
  /\ SendAll(ToId(my_id[h], WsText(to_string(Welcome(my_id[h])))))
  /\ pc' = [pc EXCEPT ![h] = "broadcast"]
  /\ UNCHANGED <<NEXT_USER_ID, users, lock, now, my_id, cur, rx_open, stream,
                 tasks, timers, frames>>

\* lines 213-217: the Welcome is written to the socket by the handler itself;
\* if the write fails the handler returns, which drops rx.
SendWelcome(h, ok) ==
  /\ pc[h] = "welcome"
  /\ IF ok
       THEN /\ stream' = [stream EXCEPT
                 ![h] = Append(@, WsText(to_string(Welcome(my_id[h]))))]
            /\ pc' = [pc EXCEPT ![h] = "broadcast"]
            /\ UNCHANGED <<rx_open, chan>>
       ELSE /\ pc' = [pc EXCEPT ![h] = "returned"]
            /\ rx_open' = [rx_open EXCEPT ![h] = FALSE]
            /\ chan' = [chan EXCEPT ![h] = <<>>]
            /\ UNCHANGED stream
  /\ UNCHANGED <<NEXT_USER_ID, users, lock, now, my_id, cur, enq, tasks,
                 timers, frames>>

\* lines 219-233: the roster is broadcast and the dispatcher is spawned.
BroadcastJoin(h) ==
  /\ pc[h] = "broadcast"
  /\ CanRead
  /\ SendAll(broadcast_user_list(users))
  /\ forward_task' = [forward_task EXCEPT ![h] = "running"]
  /\ pc' = [pc EXCEPT ![h] = "loop"]
  /\ UNCHANGED <<NEXT_USER_ID, users, lock, now, my_id, cur, rx_open, stream,
                 timeout_task, heartbeat_task, timers, frames>>

\* A router that takes the user_id of a Welcome for a target.
target_id_welcome(message) ==
  CASE message.type \in {"ConnectionRequest", "RTCOffer", "RTCAnswer",
                         "RTCCandidate"} -> {message.to_id}
    [] message.type = "ConnectionResponse" -> {message.from_id}
    [] message.type = "Welcome" -> {message.user_id}
    [] OTHER -> {}

\* lines 282-289
target_id(message) ==
  CASE message.type \in {"ConnectionRequest", "RTCOffer", "RTCAnswer",
                         "RTCCandidate"} -> {message.to_id}
    [] message.type = "ConnectionResponse" -> {message.from_id}
    [] OTHER -> {}

\* Where the handler goes after line 243 with frame f in hand.
dispatch(f) ==
  CASE f.ws = "Text" ->
         IF from_str(f.text) = {} THEN "loop"
         ELSE LET message == CHOOSE m \in from_str(f.text) : TRUE
              IN IF message.type = "PeerStateChange" THEN "psc_forward"
                 ELSE IF target_id(message) # {} THEN "route"
                 ELSE "loop"
    [] f.ws = "Pong" -> "pong"
    [] f.ws = "Close" -> "close"
    [] OTHER -> "loop"

\* lines 239-245: a frame arrives, last_activity is updated under the write
\* lock, and the frame is matched.
Receive(h, f) ==
  /\ pc[h] = "loop"
  /\ frames < MaxFrames
  /\ CanWrite
  /\ users' = touch(users, my_id[h])
  /\ pc' = [pc EXCEPT ![h] = dispatch(f)]
  /\ cur' = [cur EXCEPT ![h] = f]
  /\ frames' = frames + 1
  /\ UNCHANGED <<NEXT_USER_ID, lock, now, my_id, queues, rx_open, stream,
                 tasks, timers>>

\* line 239: the inbound stream ends (None) or yields an error (Some(Err)).
StreamEnd(h) ==
  /\ pc[h] = "loop"
  /\ pc' = [pc EXCEPT ![h] = "cleanup"]
  /\ UNCHANGED <<NEXT_USER_ID, users, lock, now, my_id, cur, queues, rx_open,
                 stream, tasks, timers, frames>>

\* The message decoded at line 247 from the frame in hand.
Message(h) == CHOOSE m \in from_str(cur[h].text) : TRUE

\* lines 254-257: the raw text goes to to_id.
PscForward(h) ==
  /\ pc[h] = "psc_forward"
  /\ CanRead
  /\ SendAll(ToId(Message(h).to_id, WsText(cur[h].text)))
  /\ pc' = [pc EXCEPT ![h] =
             IF Message(h).state \in {"connected", "disconnected"}
               THEN "psc_from" ELSE "loop"]
  /\ UNCHANGED <<NEXT_USER_ID, users, lock, now, my_id, cur, rx_open, stream,
                 tasks, timers, frames>>

\* An update that makes a record for an id that has none.
update_or_insert(m, id, state, peer) ==
  IF id \notin DOMAIN m
    THEN insert(m, id, [last_activity |-> 0, tx |-> 1, connections |-> {peer}])
  ELSE IF state = "connected"
         THEN [m EXCEPT ![id].connections = @ \cup {peer}]
         ELSE [m EXCEPT ![id].connections = @ \ {peer}]

\* connections.insert / connections.remove on record id, if it exists
update_connections(m, id, state, peer) ==
  IF id \notin DOMAIN m THEN m
  ELSE IF state = "connected"
         THEN [m EXCEPT ![id].connections = @ \cup {peer}]
         ELSE [m EXCEPT ![id].connections = @ \ {peer}]

\* lines 262-264 and 270-272: from_id's side, under one write lock.
PscFrom(h) ==
  /\ pc[h] = "psc_from"
  /\ CanWrite
  /\ users' = update_connections(users, Message(h).from_id, Message(h).state,
                                 Message(h).to_id)
  /\ pc' = [pc EXCEPT ![h] = "psc_to"]
  /\ UNCHANGED <<NEXT_USER_ID, lock, now, my_id, cur, queues, rx_open, stream,
                 tasks, timers, frames>>

\* lines 265-267 and 273-275: to_id's side, under another write lock.
PscTo(h) ==
  /\ pc[h] = "psc_to"
  /\ CanWrite
  /\ users' = update_connections(users, Message(h).to_id, Message(h).state,
                                 Message(h).from_id)
  /\ pc' = [pc EXCEPT ![h] = "loop"]
  /\ UNCHANGED <<NEXT_USER_ID, lock, now, my_id, cur, queues, rx_open, stream,
                 tasks, timers, frames>>

\* A router that returns the message to its from_id when the target is absent.
route_bounce(message) ==
  LET t == CHOOSE t \in target_id(message) : TRUE
  IN IF t \in Registered THEN ToId(t, WsText(to_string(message)))
     ELSE ToId(message.from_id, WsText(to_string(message)))

\* The frame lines 291-297 send, and to whom.
route(message) ==
  LET t == CHOOSE t \in target_id(message) : TRUE
  IN ToId(t, WsText(to_string(message)))

\* lines 281-298
Route(h) ==
  /\ pc[h] = "route"
  /\ CanRead
  /\ SendAll(route(Message(h)))
  /\ pc' = [pc EXCEPT ![h] = "loop"]
  /\ UNCHANGED <<NEXT_USER_ID, users, lock, now, my_id, cur, rx_open, stream,
                 tasks, timers, frames>>

\* lines 302-307
Pong(h) ==
  /\ pc[h] = "pong"
  /\ CanWrite
  /\ users' = touch(users, my_id[h])
  /\ pc' = [pc EXCEPT ![h] = "loop"]
  /\ UNCHANGED <<NEXT_USER_ID, lock, now, my_id, cur, queues, rx_open, stream,
                 tasks, timers, frames>>

\* lines 310-324: the notices a Close frame makes the handler send, one to
\* each peer of record id that the registry has.
disconnect_notices(m, id) ==
  [h \in Conn |->
     IF id \in DOMAIN m
        /\ \E peer_id \in m[id].connections :
              peer_id \in DOMAIN m /\ m[peer_id].tx = h
       THEN LET peer_id == CHOOSE p \in m[id].connections :
                              p \in DOMAIN m /\ m[p].tx = h
            IN <<WsText(to_string(PeerStateChange(id, peer_id,
                                                  "disconnected")))>>
       ELSE <<>>]

\* lines 308-326.  The handler leaves the loop with the Close frame in hand.
CloseNotify(h) ==
  /\ pc[h] = "close"
  /\ CanRead
  /\ SendAll(disconnect_notices(users, my_id[h]))
  /\ pc' = [pc EXCEPT ![h] = "cleanup"]
  /\ UNCHANGED <<NEXT_USER_ID, users, lock, now, my_id, cur, rx_open, stream,
                 tasks, timers, frames>>

\* line 332
Cleanup(h) ==
  /\ pc[h] = "cleanup"
  /\ CanWrite
  /\ users' = remove(users, my_id[h])
  /\ pc' = [pc EXCEPT ![h] = "broadcast_end"]
  /\ UNCHANGED <<NEXT_USER_ID, lock, now, my_id, cur, queues, rx_open, stream,
                 tasks, timers, frames>>

\* JoinHandle::abort
abort(st) == IF st \in {"running", "wait_write"} THEN "aborted" ELSE st

\* lines 333-338: the roster is broadcast and the three tasks are aborted;
\* aborting the dispatcher drops rx, aborting a timeout task drops its guard
\* and its place in the lock's queue.
BroadcastLeave(h) ==
  /\ pc[h] = "broadcast_end"
  /\ CanRead
  /\ chan' = [Deliver(chan, broadcast_user_list(users)) EXCEPT ![h] = <<>>]
  /\ enq' = Deliver(enq, broadcast_user_list(users))
  /\ heartbeat_task' = [heartbeat_task EXCEPT ![h] = abort(@)]
  /\ timeout_task' = [timeout_task EXCEPT ![h] = abort(@)]
  /\ forward_task' = [forward_task EXCEPT ![h] = abort(@)]
  /\ read_guards' = read_guards \ {h}
  /\ write_waiters' = write_waiters \ {h}
  /\ rx_open' = [rx_open EXCEPT ![h] = FALSE]
  /\ pc' = [pc EXCEPT ![h] = "returned"]
  /\ UNCHANGED <<NEXT_USER_ID, users, now, my_id, cur, stream, timers, frames>>

\* ----------------------------------------------------- background tasks
\* A check that takes a connection for idle as soon as the threshold is reached.
idle_early(st) == now - st.last_activity >= IdleTimeout

\* state.last_activity.elapsed() > timeout_duration
idle(st) == now - st.last_activity > IdleTimeout

\* lines 184-195.  A tick reads the record under a read guard; if it is idle
\* the task sends Close and asks for the write lock with the guard of line 186
\* still alive.  The write lock is granted once no read guard is alive.
TimeoutStep(h) ==
  /\ IF timeout_task[h] = "running"
       THEN /\ now >= timeout_at[h]
            /\ CanRead
            /\ timeout_at' = [timeout_at EXCEPT ![h] = @ + CheckInterval]
            /\ IF my_id[h] \in Registered
                 THEN IF idle(users[my_id[h]])
                        THEN /\ SendAll(ToId(my_id[h], WsClose))
                             /\ read_guards' = read_guards \cup {h}
                             /\ write_waiters' = write_waiters \cup {h}
                             /\ timeout_task' =
                                  [timeout_task EXCEPT ![h] = "wait_write"]
                        ELSE UNCHANGED <<queues, lock, timeout_task>>
                 ELSE /\ timeout_task' = [timeout_task EXCEPT ![h] = "done"]
                      /\ UNCHANGED <<queues, lock>>
            /\ UNCHANGED users
       ELSE /\ timeout_task[h] = "wait_write"
            /\ read_guards = {}
            /\ users' = remove(users, my_id[h])
            /\ write_waiters' = write_waiters \ {h}
            /\ timeout_task' = [timeout_task EXCEPT ![h] = "done"]
            /\ UNCHANGED <<queues, read_guards, timeout_at>>
  /\ UNCHANGED <<NEXT_USER_ID, now, pc, my_id, cur, rx_open, stream,
                 heartbeat_task, forward_task, heartbeat_at, frames>>

\* A heartbeat that goes on ticking after a send has failed.
HeartbeatGoesOn(h) ==
  /\ heartbeat_task[h] = "running"
  /\ now >= heartbeat_at[h]
  /\ heartbeat_at' = [heartbeat_at EXCEPT ![h] = @ + HeartbeatInterval]
  /\ IF rx_open[h]
       THEN SendAll([k \in Conn |-> IF k = h THEN <<WsPing>> ELSE <<>>])
       ELSE UNCHANGED queues
  /\ UNCHANGED <<NEXT_USER_ID, users, lock, now, pc, my_id, cur, rx_open,
                 stream, tasks, timeout_at, frames>>

\* lines 204-209: at each tick a ping is enqueued; the task ends when the send
\* fails.
Heartbeat(h) ==
  /\ heartbeat_task[h] = "running"
  /\ now >= heartbeat_at[h]
  /\ heartbeat_at' = [heartbeat_at EXCEPT ![h] = @ + HeartbeatInterval]
  /\ IF rx_open[h]
       THEN /\ SendAll([k \in Conn |-> IF k = h THEN <<WsPing>> ELSE <<>>])
            /\ UNCHANGED heartbeat_task
       ELSE /\ heartbeat_task' = [heartbeat_task EXCEPT ![h] = "done"]
            /\ UNCHANGED queues
  /\ UNCHANGED <<NEXT_USER_ID, users, lock, now, pc, my_id, cur, rx_open,
                 stream, timeout_task, forward_task, timeout_at, frames>>

\* A receiver that takes the frame enqueued last.
recv_newest(q) == [message |-> q[Len(q)], rest |-> SubSeq(q, 1, Len(q) - 1)]

\* rx.recv(): the frame the dispatcher takes and what stays in the channel.
recv(q) == [message |-> Head(q), rest |-> Tail(q)]

\* lines 226-230: the dispatcher takes the next frame and writes it; a failed
\* write ends the task, which drops rx.
Forward(h, ok) ==
  /\ forward_task[h] = "running"
  /\ chan[h] # <<>>
  /\ IF ok
       THEN /\ stream' = [stream EXCEPT ![h] = Append(@, recv(chan[h]).message)]
            /\ chan' = [chan EXCEPT ![h] = recv(chan[h]).rest]
            /\ UNCHANGED <<forward_task, rx_open>>
       ELSE /\ forward_task' = [forward_task EXCEPT ![h] = "done"]
            /\ rx_open' = [rx_open EXCEPT ![h] = FALSE]
            /\ chan' = [chan EXCEPT ![h] = <<>>]
            /\ UNCHANGED stream
  /\ UNCHANGED <<NEXT_USER_ID, users, lock, now, pc, my_id, cur, enq,
                 timeout_task, heartbeat_task, timers, frames>>

\* One check interval passes.
Tick ==
  /\ now < MaxTicks * CheckInterval
  /\ now' = now + CheckInterval
  /\ UNCHANGED <<NEXT_USER_ID, users, lock, pc, my_id, cur, queues, rx_open,
                 stream, tasks, timers, frames>>

\* ------------------------------------------------------ specification
Init ==
  /\ NEXT_USER_ID = FirstId
  /\ users = <<>>
  /\ read_guards = {}
  /\ write_waiters = {}
  /\ now = 0
  /\ pc = [h \in Conn |-> "init"]
  /\ my_id = [h \in Conn |-> NoId]
  /\ cur = [h \in Conn |-> NoFrame]
  /\ chan = [h \in Conn |-> <<>>]
  /\ rx_open = [h \in Conn |-> FALSE]
  /\ enq = [h \in Conn |-> <<>>]
  /\ stream = [h \in Conn |-> <<>>]
  /\ timeout_task = [h \in Conn |-> "none"]
  /\ heartbeat_task = [h \in Conn |-> "none"]
  /\ forward_task = [h \in Conn |-> "none"]
  /\ timeout_at = [h \in Conn |-> 0]
  /\ heartbeat_at = [h \in Conn |-> 0]
  /\ frames = 0

\* ---- the frames clients send
\* PeerStateChange frames about the pair (1, 2).
PairFrames ==
  {WsText(to_string(PeerStateChange(f, t, s))) :
     f \in 1..2, t \in 1..2, s \in {"connected", "disconnected"}}

\* What an idle client and its peer send: the pairing of (1, 2), pongs, and
\* the Close with which a client answers a Close.
TimerFrames ==
  {WsText(to_string(PeerStateChange(1, 2, "connected"))), WsPong, WsClose}

\* Clients 2 and 3 pair with client 1, and clients close.
CloseFrames ==
  {WsText(to_string(PeerStateChange(1, t, "connected"))) : t \in 2..3}
    \cup {WsClose}

\* Routable messages to a registered and to an absent target, and pairing
\* updates that name registered and absent ids.
RouteMessages ==
  {ConnectionRequest(1, 2), ConnectionRequest(2, AbsentId),
   ConnectionResponse(1, TRUE), ConnectionResponse(AbsentId, FALSE),
   RTCOffer(1, 2, "x"), RTCOffer(2, AbsentId, "x"),
   RTCAnswer(2, 1, "y"), RTCCandidate(1, 2, "z"),
   PeerStateChange(1, 2, "connected"),
   PeerStateChange(1, 2, "connecting"),
   PeerStateChange(1, AbsentId, "connected"),
   PeerStateChange(AbsentId, 1, "disconnected"),
   PeerStateChange(AbsentId, AbsentId, "connected")}

\* The same as texts, one of them not written the way serde_json writes it,
\* a text that is no Message, a Welcome and a UserList sent by a client, and
\* a binary frame.
RouteFrames ==
  {WsText(to_string(m)) : m \in RouteMessages}
    \cup {WsText([json |-> RTCOffer(1, 2, "x"), canonical |-> FALSE]),
          WsText([json |-> [type |-> "Hello"], canonical |-> TRUE]),
          WsText(to_string(Welcome(1))),
          WsText(to_string(UserList({User(1)}))),
          WsBinary}

\* What the router is given in the dispatch workload.
DispatchFrames == {WsText(to_string(RTCOffer(1, 2, "x")))}

\* Every frame of the workloads below.
InFrames ==
  PairFrames \cup TimerFrames \cup CloseFrames \cup RouteFrames
    \cup DispatchFrames

\* Every action of the program, with every frame of the workloads below.
Next ==
  \E h \in Conn :
    \/ Accept(h)
    \/ Insert(h)
    \/ \E ok \in BOOLEAN : SendWelcome(h, ok)
    \/ BroadcastJoin(h)
    \/ \E f \in InFrames : Receive(h, f)
    \/ StreamEnd(h)
    \/ PscForward(h)
    \/ PscFrom(h)
    \/ PscTo(h)
    \/ Route(h)
    \/ Pong(h)
    \/ CloseNotify(h)
    \/ Cleanup(h)
    \/ BroadcastLeave(h)
    \/ TimeoutStep(h)
    \/ Heartbeat(h)
    \/ \E ok \in BOOLEAN : Forward(h, ok)
    \/ Tick

Spec == Init /\ [][Next]_vars

(***************************************************************************)
(* Workloads.  The program's actions are the same in each; a workload      *)
(* fixes what the clients and the transport do: when sockets arrive, which *)
(* frames are sent, whether writes fail, whether time passes.              *)
(***************************************************************************)

\* No handler is between accepting its socket and its read loop, or in the
\* middle of a frame.
Quiet == \A k \in Conn : pc[k] \in {"init", "loop", "returned"}

\* ---- pairing: clients connect one after another and, once connections 1
\* and 2 are registered, send PeerStateChange frames about that pair, on any
\* connection and at any time.
NextPairing ==
  \E h \in Conn :
    \/ Quiet /\ Accept(h)
    \/ Insert(h)
    \/ SendWelcome(h, TRUE)
    \/ BroadcastJoin(h)
    \/ \E f \in PairFrames : {1, 2} \subseteq Registered /\ Receive(h, f)
    \/ PscForward(h)
    \/ PscFrom(h)
    \/ PscTo(h)

SpecPairing == Init /\ [][NextPairing]_vars

\* C1: in every state another task can observe (no write guard is alive
\* between two steps), for all registered a and b, b is in a's connections
\* exactly if a is in b's.
C1_PairingSymmetric ==
  \A a \in Registered : \A b \in Registered :
    b \in users[a].connections <=> a \in users[b].connections

\* ---- timers: MaxPeers clients connect one after another, pair, send pongs
\* or stay silent while time passes, and may close.  Heartbeats and the
\* dispatchers are left to the dispatch workload.
NextTimers ==
  \E h \in 1..MaxPeers :
    \/ Quiet /\ Accept(h)
    \/ Insert(h)
    \/ SendWelcome(h, TRUE)
    \/ BroadcastJoin(h)
    \/ \E f \in TimerFrames : Receive(h, f)
    \/ PscForward(h)
    \/ PscFrom(h)
    \/ PscTo(h)
    \/ Pong(h)
    \/ CloseNotify(h)
    \/ Cleanup(h)
    \/ BroadcastLeave(h)
    \/ TimeoutStep(h)
    \/ Tick

SpecTimers == Init /\ [][NextTimers]_vars

\* The runtime polls every task that can run: each step of a handler and of
\* its tasks is taken if it stays possible.  Nothing is assumed of clients.
ScheduledTimers(h) ==
  /\ WF_vars(Insert(h))
  /\ WF_vars(BroadcastJoin(h))
  /\ WF_vars(PscForward(h))
  /\ WF_vars(PscFrom(h))
  /\ WF_vars(PscTo(h))
  /\ WF_vars(Pong(h))
  /\ WF_vars(CloseNotify(h))
  /\ WF_vars(Cleanup(h))
  /\ WF_vars(BroadcastLeave(h))
  /\ WF_vars(TimeoutStep(h))

FairSpecTimers == SpecTimers /\ \A h \in 1..MaxPeers : ScheduledTimers(h)

\* The idle-timeout task of h found the connection idle and enqueued Close.
Evicting(h) == timeout_task[h] = "wait_write"

\* C2: once the idle-timeout task of a connection has found it idle and
\* enqueued the close frame, the connection's id leaves the registry and the
\* task terminates.
C2_IdleEvicted ==
  \A h \in 1..MaxPeers :
    Evicting(h) ~> (my_id[h] \notin Registered /\ timeout_task[h] = "done")

\* Frame f was enqueued on the channel of handler k.
Sent(k, f) == \E i \in 1..Len(enq[k]) : enq[k][i] = f

\* The notice a peer gets when connection id goes away.
Notice(id, peer) == WsText(to_string(PeerStateChange(id, peer, "disconnected")))

\* A roster that does not list id was enqueued on the channel of handler k.
RosterWithout(k, id) ==
  \E i \in 1..Len(enq[k]) :
    /\ enq[k][i].ws = "Text"
    /\ enq[k][i].text.json.type = "UserList"
    /\ User(id) \notin enq[k][i].text.json.users

\* C3: when the idle-timeout task evicts a connection, every registered peer
\* in its connections set is sent the "disconnected" PeerStateChange and a
\* roster without the evicted id, as after a Close frame.
C3_EvictionNotifies ==
  \A h \in 1..MaxPeers : \A k \in 1..MaxPeers :
    (/\ Evicting(h)
     /\ my_id[h] \in Registered
     /\ my_id[k] \in Registered
     /\ my_id[k] \in users[my_id[h]].connections)
      ~> (/\ Sent(k, Notice(my_id[h], my_id[k]))
          /\ RosterWithout(k, my_id[h]))

\* A client names in a PeerStateChange only ids that a roster has shown it.
Known(f) ==
  f.ws = "Text" => {f.text.json.from_id, f.text.json.to_id} \subseteq Registered

\* ---- closing: clients connect one after another (a Welcome may fail to be
\* written), pair with client 1, and go away with a Close frame or without.
NextClose ==
  \E h \in Conn :
    \/ Quiet /\ Accept(h)
    \/ Insert(h)
    \/ \E ok \in BOOLEAN : SendWelcome(h, ok)
    \/ BroadcastJoin(h)
    \/ \E f \in CloseFrames : Known(f) /\ Receive(h, f)
    \/ StreamEnd(h)
    \/ PscForward(h)
    \/ PscFrom(h)
    \/ PscTo(h)
    \/ CloseNotify(h)
    \/ Cleanup(h)
    \/ BroadcastLeave(h)

SpecClose == Init /\ [][NextClose]_vars

ScheduledClose(h) ==
  /\ WF_vars(Insert(h))
  /\ WF_vars(\E ok \in BOOLEAN : SendWelcome(h, ok))
  /\ WF_vars(BroadcastJoin(h))
  /\ WF_vars(PscForward(h))
  /\ WF_vars(PscFrom(h))
  /\ WF_vars(PscTo(h))
  /\ WF_vars(CloseNotify(h))
  /\ WF_vars(Cleanup(h))
  /\ WF_vars(BroadcastLeave(h))

FairSpecClose == SpecClose /\ \A h \in Conn : ScheduledClose(h)

\* Frame f is a "disconnected" PeerStateChange from id.
IsNotice(f, id) ==
  /\ f.ws = "Text"
  /\ f.text.json.type = "PeerStateChange"
  /\ f.text.json.from_id = id
  /\ f.text.json.state = "disconnected"

\* How many "disconnected" notices from id were enqueued for handler k.
Notices(k, id) ==
  Cardinality({i \in 1..Len(enq[k]) : IsNotice(enq[k][i], id)})

\* Record id exists and the receiving end of its channel is open.
Live(id) == id \in Registered /\ rx_open[users[id].tx]

\* The live peers in the connections set of record id.
Paired(id) ==
  IF id \in Registered THEN {p \in users[id].connections : Live(p)} ELSE {}

\* The roster frame for the ids of set S.
Roster(S) == WsText(to_string(UserList({User(id) : id \in S})))

\* Handler h removes its record (line 332) / broadcasts and returns (333-338).
Removed(h) == pc[h] = "cleanup" /\ pc'[h] = "broadcast_end"
Left(h) == pc[h] = "broadcast_end" /\ pc'[h] = "returned"

\* C4: when a closing connection is removed, each live peer in its
\* connections set has been sent exactly one "disconnected" PeerStateChange
\* from it and no other connection has been sent one; the roster broadcast
\* that follows goes to every remaining live connection and lists exactly the
\* remaining ids.
C4_DisconnectFanOut ==
  [][\A h \in Conn :
       /\ Removed(h) =>
            \A k \in Conn :
              Notices(k, my_id[h]) =
                IF my_id[k] \in Paired(my_id[h]) THEN 1 ELSE 0
       /\ Left(h) =>
            /\ my_id[h] \notin Registered
            /\ \A k \in Conn :
                 (k # h /\ Live(my_id[k])) =>
                   enq'[k] = Append(enq[k], Roster(Registered))]_vars

\* C5: when a connection whose stream ended or failed without a Close frame
\* is removed, every live peer in its connections set has been sent the
\* "disconnected" PeerStateChange from it.
C5_StreamEndNotifies ==
  [][\A h \in Conn :
       (Removed(h) /\ cur[h] # WsClose) =>
         \A k \in Conn :
           my_id[k] \in Paired(my_id[h]) =>
             Sent(k, Notice(my_id[h], my_id[k]))]_vars

\* A roster that lists id was enqueued on the channel of handler k.
RosterWith(k, id) ==
  \E i \in 1..Len(enq[k]) :
    /\ enq[k][i].ws = "Text"
    /\ enq[k][i].text.json.type = "UserList"
    /\ User(id) \in enq[k][i].text.json.users

\* C10: after a record is inserted on accept, a UserList that lists it is
\* enqueued to the connections in the registry, the new one among them.
C10_RosterAfterChange ==
  \A h \in Conn : (pc[h] = "welcome") ~> RosterWith(h, my_id[h])

\* ---- routing: MaxPeers clients connect one after another and send routable
\* and other frames.
NextRouting ==
  \E h \in 1..MaxPeers :
    \/ Quiet /\ Accept(h)
    \/ Insert(h)
    \/ SendWelcome(h, TRUE)
    \/ BroadcastJoin(h)
    \/ \E f \in RouteFrames : Receive(h, f)
    \/ PscForward(h)
    \/ PscFrom(h)
    \/ PscTo(h)
    \/ Route(h)

SpecRouting == Init /\ [][NextRouting]_vars

\* ------------------------------------------ the warp server (bin/server.rs)
\* Its registry maps an id to the sender of the connection's channel.
LegacyMessageTypes == MessageTypes \ {"PeerStateChange"}

legacy_from_str(text) ==
  IF text.json.type \in LegacyMessageTypes THEN {text.json} ELSE {}

LegacyMessage(h) == CHOOSE m \in legacy_from_str(cur[h].text) : TRUE

\* line 41
LegacyAccept(h) ==
  /\ pc[h] = "init"
  /\ IF h = 1 THEN TRUE ELSE pc[h - 1] # "init"
  /\ my_id' = [my_id EXCEPT ![h] = fetch_add(NEXT_USER_ID).ret]
  /\ NEXT_USER_ID' = fetch_add(NEXT_USER_ID).new
  /\ pc' = [pc EXCEPT ![h] = "welcome"]
  /\ UNCHANGED <<users, lock, now, cur, queues, rx_open, stream, tasks, timers,
                 frames>>

\* lines 47-48: the outcome of the write is ignored.
LegacyWelcome(h, ok) ==
  /\ pc[h] = "welcome"
  /\ stream' = [stream EXCEPT ![h] =
                  IF ok THEN Append(@, WsText(to_string(Welcome(my_id[h]))))
                  ELSE @]
  /\ pc' = [pc EXCEPT ![h] = "insert"]
  /\ UNCHANGED <<NEXT_USER_ID, users, lock, now, my_id, cur, queues, rx_open,
                 tasks, timers, frames>>

\* lines 50-51
LegacyInsert(h) ==
  /\ pc[h] = "insert"
  /\ CanWrite
  /\ users' = insert(users, my_id[h], [tx |-> h])
  /\ rx_open' = [rx_open EXCEPT ![h] = TRUE]
  /\ pc' = [pc EXCEPT ![h] = "broadcast"]
  /\ UNCHANGED <<NEXT_USER_ID, lock, now, my_id, cur, queues, stream, tasks,
                 timers, frames>>

\* lines 52-63
LegacyBroadcastJoin(h) ==
  /\ pc[h] = "broadcast"
  /\ CanRead
  /\ SendAll(broadcast_user_list(users))
  /\ forward_task' = [forward_task EXCEPT ![h] = "running"]
  /\ pc' = [pc EXCEPT ![h] = "loop"]
  /\ UNCHANGED <<NEXT_USER_ID, users, lock, now, my_id, cur, rx_open, stream,
                 timeout_task, heartbeat_task, timers, frames>>

\* lines 67-69 and 90: only two kinds of message have an arm.
legacy_dispatch(f) ==
  IF f.ws = "Text" /\ legacy_from_str(f.text) # {}
    THEN LET message == CHOOSE m \in legacy_from_str(f.text) : TRUE
         IN IF message.type \in {"ConnectionRequest", "ConnectionResponse"}
              THEN "route" ELSE "loop"
    ELSE "loop"

\* lines 66-69
LegacyReceive(h, f) ==
  /\ pc[h] = "loop"
  /\ frames < MaxFrames
  /\ pc' = [pc EXCEPT ![h] = legacy_dispatch(f)]
  /\ cur' = [cur EXCEPT ![h] = f]
  /\ frames' = frames + 1
  /\ UNCHANGED <<NEXT_USER_ID, users, lock, now, my_id, queues, rx_open,
                 stream, tasks, timers>>

\* lines 70-89: the frame sent for a message read by connection id.
legacy_route(id, message) ==
  IF message.type = "ConnectionRequest"
    THEN ToId(message.to_id,
              WsText(to_string(ConnectionRequest(message.from_id,
                                                 message.to_id))))
    ELSE ToId(message.from_id,
              WsText(to_string(ConnectionResponse(id, message.accepted))))

LegacyRoute(h) ==
  /\ pc[h] = "route"
  /\ CanRead
  /\ SendAll(legacy_route(my_id[h], LegacyMessage(h)))
  /\ pc' = [pc EXCEPT ![h] = "loop"]
  /\ UNCHANGED <<NEXT_USER_ID, users, lock, now, my_id, cur, rx_open, stream,
                 tasks, timers, frames>>

\* line 66: the stream ends or yields an error.
LegacyStreamEnd(h) ==
  /\ pc[h] = "loop"
  /\ pc' = [pc EXCEPT ![h] = "cleanup"]
  /\ UNCHANGED <<NEXT_USER_ID, users, lock, now, my_id, cur, queues, rx_open,
                 stream, tasks, timers, frames>>

\* line 97
LegacyCleanup(h) ==
  /\ pc[h] = "cleanup"
  /\ CanWrite
  /\ users' = remove(users, my_id[h])
  /\ pc' = [pc EXCEPT ![h] = "broadcast_end"]
  /\ UNCHANGED <<NEXT_USER_ID, lock, now, my_id, cur, queues, rx_open, stream,
                 tasks, timers, frames>>

\* lines 98-99
LegacyBroadcastLeave(h) ==
  /\ pc[h] = "broadcast_end"
  /\ CanRead
  /\ chan' = [Deliver(chan, broadcast_user_list(users)) EXCEPT ![h] = <<>>]
  /\ enq' = Deliver(enq, broadcast_user_list(users))
  /\ forward_task' = [forward_task EXCEPT ![h] = abort(@)]
  /\ rx_open' = [rx_open EXCEPT ![h] = FALSE]
  /\ pc' = [pc EXCEPT ![h] = "returned"]
  /\ UNCHANGED <<NEXT_USER_ID, users, lock, now, my_id, cur, stream,
                 timeout_task, heartbeat_task, timers, frames>>

NextLegacy ==
  \E h \in 1..MaxPeers :
    \/ Quiet /\ LegacyAccept(h)
    \/ \E ok \in BOOLEAN : LegacyWelcome(h, ok)
    \/ LegacyInsert(h)
    \/ LegacyBroadcastJoin(h)
    \/ \E f \in RouteFrames : LegacyReceive(h, f)
    \/ LegacyRoute(h)
    \/ LegacyStreamEnd(h)
    \/ LegacyCleanup(h)
    \/ LegacyBroadcastLeave(h)

SpecLegacy == Init /\ [][NextLegacy]_vars

\* ---- routing claims
RoutableTypes ==
  {"ConnectionRequest", "ConnectionResponse", "RTCOffer", "RTCAnswer",
   "RTCCandidate", "PeerStateChange"}

\* The id a routable message is for.
Target(m) == IF m.type = "ConnectionResponse" THEN m.from_id ELSE m.to_id

\* The messages a frame decodes to, in either server, that are to be routed
\* and whose target is live.
Routable(f) ==
  IF f.ws = "Text"
    THEN {m \in from_str(f.text) :
            m.type \in RoutableTypes /\ Live(Target(m))}
    ELSE {}

LegacyRoutable(f) ==
  IF f.ws = "Text"
    THEN {m \in legacy_from_str(f.text) :
            m.type \in RoutableTypes /\ Live(Target(m))}
    ELSE {}

\* Handler h goes from reading to routing / completes a routing step.
StartsRouting(h) == pc'[h] \in {"route", "psc_forward"}
Routes(h) == pc[h] \in {"route", "psc_forward"} /\ pc'[h] # pc[h]

\* This step enqueues message m, in some text form, for handler k.
Delivered(k, m) ==
  \E c \in BOOLEAN :
    enq'[k] = Append(enq[k], WsText([json |-> m, canonical |-> c]))

\* C6: every decodable routable frame a handler reads is routed, and the
\* routing step enqueues it, fields unchanged, on the channel of its target
\* (to_id, or from_id for ConnectionResponse) if that is live, and on no other
\* channel.
C6_RoutedToTarget ==
  [][\A h \in Conn :
       /\ \A f \in RouteFrames :
            \/ Receive(h, f) /\ Routable(f) # {}
            \/ LegacyReceive(h, f) /\ LegacyRoutable(f) # {}
            => StartsRouting(h)
       /\ (Routes(h) /\ Live(Target(cur[h].text.json))) =>
            \A k \in Conn :
              IF k = users[Target(cur[h].text.json)].tx
                THEN Delivered(k, cur[h].text.json)
                ELSE enq'[k] = enq[k]]_vars

\* Handler h completes a step of handling a frame whose target is absent.
DropsStep(h) ==
  /\ pc[h] \in {"route", "psc_forward", "psc_from", "psc_to"}
  /\ pc'[h] # pc[h]
  /\ Target(Message(h)) \notin Registered

\* C7: handling a routable message whose target is not in the registry
\* enqueues nothing for anyone, writes nothing to any socket, and leaves the
\* registry's membership (the sender included) as it was.
C7_SilentDrop ==
  [][\A h \in Conn :
       DropsStep(h) =>
         /\ enq' = enq
         /\ chan' = chan
         /\ stream' = stream
         /\ DOMAIN users' = DOMAIN users]_vars

\* A frame for an absent target was handled to the end by a registered
\* handler and nothing but rosters was ever enqueued.
C7_Dropped ==
  \E h \in Conn :
    /\ pc[h] = "loop"
    /\ cur[h] = WsText(to_string(RTCOffer(2, AbsentId, "x")))
    /\ my_id[h] \in Registered
    /\ \A k \in Conn : \A i \in 1..Len(enq[k]) :
         enq[k][i].text.json.type = "UserList"

\* ---- accepting: sockets are accepted concurrently; a Welcome may fail and
\* connections end.
NextAccept ==
  \E h \in Conn :
    \/ Accept(h)
    \/ Insert(h)
    \/ \E ok \in BOOLEAN : SendWelcome(h, ok)
    \/ BroadcastJoin(h)
    \/ StreamEnd(h)
    \/ Cleanup(h)
    \/ BroadcastLeave(h)

SpecAccept == Init /\ [][NextAccept]_vars

\* Handler h has been given its id.
Allocated(h) == pc[h] # "init"

\* C8: the ids given out are pairwise distinct, the first is FirstId, each is
\* greater than every id given out before it (slot h is the h-th accept) and
\* below the counter, and every record belongs to the one handler that was
\* given its id.
C8_IdentityAllocation ==
  /\ \A h \in Conn : \A k \in Conn :
       (Allocated(h) /\ Allocated(k) /\ h # k) => my_id[h] # my_id[k]
  /\ Allocated(1) => my_id[1] = FirstId
  /\ \A h \in Conn : \A k \in Conn :
       (Allocated(h) /\ Allocated(k) /\ h < k) => my_id[h] < my_id[k]
  /\ \A h \in Conn : Allocated(h) => my_id[h] < NEXT_USER_ID
  /\ \A id \in Registered :
       Allocated(users[id].tx) /\ my_id[users[id].tx] = id

\* All MaxConn accepts raced: every handler holds its id and none has yet
\* inserted its record.
C8_ConcurrentAccepts ==
  /\ \A h \in Conn : pc[h] = "insert"
  /\ NEXT_USER_ID = FirstId + MaxConn

\* ---- dispatch: MaxPeers clients connect one after another; the router, the
\* heartbeat and idle-timeout tasks and the roster broadcasts fill their
\* channels while the dispatchers empty them; a socket write may fail.
NextDispatch ==
  \E h \in 1..MaxPeers :
    \/ Quiet /\ Accept(h)
    \/ Insert(h)
    \/ SendWelcome(h, TRUE)
    \/ BroadcastJoin(h)
    \/ \E f \in DispatchFrames : frames < MaxDispatchFrames /\ Receive(h, f)
    \/ Route(h)
    \/ Heartbeat(h)
    \/ TimeoutStep(h)
    \/ \E ok \in BOOLEAN : Forward(h, ok)
    \/ now < MaxDispatchTicks * CheckInterval /\ Tick

SpecDispatch == Init /\ [][NextDispatch]_vars

\* What the dispatcher of h has written: the stream after the Welcome, which
\* the handler writes itself before it spawns the dispatcher.
Dispatched(h) == IF stream[h] = <<>> THEN <<>> ELSE Tail(stream[h])

IsPrefix(s, t) == Len(s) <= Len(t) /\ s = SubSeq(t, 1, Len(s))

\* C9: what a connection's dispatcher has written to the stream is always a
\* prefix of what was enqueued on the connection's channel, in that order.
C9_WrittenInOrder == \A h \in Conn : IsPrefix(Dispatched(h), enq[h])

\* A dispatcher has written a roster, a routed frame and a ping, and frames
\* were waiting behind each other in the channel.
C9_MixedFrames ==
  \E h \in Conn :
    /\ \E i \in 1..Len(Dispatched(h)) : Dispatched(h)[i] = WsPing
    /\ \E i \in 1..Len(Dispatched(h)) :
         Dispatched(h)[i] = WsText(to_string(RTCOffer(1, 2, "x")))
    /\ RosterWith(h, my_id[h])
    /\ Len(chan[h]) >= 2

\* ---- write failures: MaxPeers clients connect one after another, pair and
\* go away with a Close frame or without, while the dispatchers write
\* and a write may fail.
NextWrite ==
  \E h \in 1..MaxPeers :
    \/ Quiet /\ Accept(h)
    \/ Insert(h)
    \/ SendWelcome(h, TRUE)
    \/ BroadcastJoin(h)
    \/ \E f \in CloseFrames : Known(f) /\ Receive(h, f)
    \/ StreamEnd(h)
    \/ PscForward(h)
    \/ PscFrom(h)
    \/ PscTo(h)
    \/ CloseNotify(h)
    \/ Cleanup(h)
    \/ BroadcastLeave(h)
    \/ \E ok \in BOOLEAN : Forward(h, ok)

SpecWrite == Init /\ [][NextWrite]_vars

ScheduledWrite(h) ==
  /\ WF_vars(Insert(h))
  /\ WF_vars(SendWelcome(h, TRUE))
  /\ WF_vars(BroadcastJoin(h))
  /\ WF_vars(PscForward(h))
  /\ WF_vars(PscFrom(h))
  /\ WF_vars(PscTo(h))
  /\ WF_vars(CloseNotify(h))
  /\ WF_vars(Cleanup(h))
  /\ WF_vars(BroadcastLeave(h))
  /\ WF_vars(\E ok \in BOOLEAN : Forward(h, ok))

FairSpecWrite == SpecWrite /\ \A h \in 1..MaxPeers : ScheduledWrite(h)

\* The dispatcher of h stopped on a failed write.
WriteFailed(h) == forward_task[h] = "done"

\* C11: once the dispatcher of a connection has stopped on a failed write,
\* the connection is unregistered, with no further inbound event needed.
C11_WriteFailureUnregisters ==
  \A h \in Conn : WriteFailed(h) ~> (my_id[h] \notin Registered)

\* ---- task lifetimes
\* A spawned task of h that has neither ended nor been aborted.
Running(t, h) == t[h] \in {"running", "wait_write"}

\* C12: once the handler of a connection has returned, whichever way it
\* finished, none of its heartbeat, idle-timeout and dispatcher tasks is
\* still running.
C12_TasksStopped ==
  \A h \in Conn :
    pc[h] = "returned" =>
      ~(Running(heartbeat_task, h) \/ Running(timeout_task, h)
          \/ Running(forward_task, h))

\* ---- containment: MaxConn clients connect one after another and pair; the
\* last one goes away, with a Close frame, with a stream end or error, or with
\* a failed write, while the others stay and their dispatchers write.
Failing == MaxConn

NextContain ==
  \E h \in Conn :
    \/ Quiet /\ Accept(h)
    \/ Insert(h)
    \/ SendWelcome(h, TRUE)
    \/ BroadcastJoin(h)
    \/ \E f \in CloseFrames :
         Known(f) /\ (f = WsClose => h = Failing) /\ Receive(h, f)
    \/ h = Failing /\ StreamEnd(h)
    \/ PscForward(h)
    \/ PscFrom(h)
    \/ PscTo(h)
    \/ CloseNotify(h)
    \/ Cleanup(h)
    \/ BroadcastLeave(h)
    \/ \E ok \in BOOLEAN : (~ok => h = Failing) /\ Forward(h, ok)

SpecContain == Init /\ [][NextContain]_vars

\* A step in which connection c fails or is closed down: its stream ends or
\* yields an error, a Close frame is read, a write of its dispatcher fails, or
\* its handler takes a step of the shutdown.
FailureStep(c) ==
  \/ StreamEnd(c)
  \/ Receive(c, WsClose)
  \/ Forward(c, FALSE)
  \/ CloseNotify(c)
  \/ Cleanup(c)
  \/ BroadcastLeave(c)

\* The step leaves every connection other than c as it was: its record stays,
\* its three tasks stay in their state, its queue stays open, and the pairing
\* between two ids other than that of c is unchanged.
Contained(c) ==
  /\ \A h \in Conn \ {c} :
       /\ my_id[h] \in Registered => my_id[h] \in DOMAIN users'
       /\ forward_task'[h] = forward_task[h]
       /\ timeout_task'[h] = timeout_task[h]
       /\ heartbeat_task'[h] = heartbeat_task[h]
       /\ rx_open'[h] = rx_open[h]
  /\ \A a \in Registered \ {my_id[c]} :
       a \in DOMAIN users' =>
         users'[a].connections \ {my_id[c]} = users[a].connections \ {my_id[c]}

\* C13: a stream error, a close or a write failure on connection c never
\* removes the record of another connection, never stops the dispatcher or a
\* timer of another connection, and never changes the pairing between two
\* connections both other than c.
C13_FailureContained ==
  [][\A c \in Conn : FailureStep(c) => Contained(c)]_vars

\* The failing connection had a write fail and has been shut down, while the
\* two others, paired with each other, are registered with their tasks running.
C13_OthersUntouched ==
  /\ pc[Failing] = "returned"
  /\ forward_task[Failing] = "done"
  /\ my_id[Failing] \notin Registered
  /\ \A h \in Conn \ {Failing} :
       /\ my_id[h] \in Registered
       /\ forward_task[h] = "running"
       /\ timeout_task[h] = "running"
       /\ heartbeat_task[h] = "running"
  /\ my_id[2] \in users[my_id[1]].connections
  /\ my_id[Failing] \in users[my_id[1]].connections

\* ---- pairing updates
\* Handler h takes the last step of the handling of a PeerStateChange.
FinishesPairing(h) ==
  \/ pc[h] = "psc_to" /\ pc'[h] = "loop"
  \/ pc[h] = "psc_forward" /\ pc'[h] = "loop"

\* The handling of the PeerStateChange in the hand of h changes no
\* connections set other than those of its from_id and to_id.
PairingStep(h) ==
  /\ pc[h] \in {"psc_forward", "psc_from", "psc_to"}
  /\ pc'[h] # pc[h]

\* C14: when a handler finishes a PeerStateChange whose from_id and to_id are
\* both live, "connected" has each id in the other's connections,
\* "disconnected" has each id out of the other's connections, and any other
\* state has left every connections set as it was; and no step of the
\* handling changes the connections of a third record.
C14_PairingApplied ==
  [][\A h \in Conn :
       /\ (FinishesPairing(h) /\ Live(Message(h).from_id)
             /\ Live(Message(h).to_id)) =>
            /\ Message(h).state = "connected" =>
                 /\ Message(h).to_id \in users'[Message(h).from_id].connections
                 /\ Message(h).from_id \in users'[Message(h).to_id].connections
            /\ Message(h).state = "disconnected" =>
                 /\ Message(h).to_id \notin users'[Message(h).from_id].connections
                 /\ Message(h).from_id \notin users'[Message(h).to_id].connections
            /\ Message(h).state \notin {"connected", "disconnected"} =>
                 users' = users
       /\ PairingStep(h) =>
            /\ DOMAIN users' = DOMAIN users
            /\ \A id \in Registered \ {Message(h).from_id, Message(h).to_id} :
                 users'[id].connections = users[id].connections]_vars

\* The registry after the connections of record id, which exists, have been
\* given or lost peer, every other record as it was.
SideUpdated(id, state, peer) ==
  /\ DOMAIN users' = DOMAIN users
  /\ users'[id].connections =
       IF state = "connected" THEN users[id].connections \cup {peer}
       ELSE users[id].connections \ {peer}
  /\ \A k \in Registered \ {id} : users'[k] = users[k]

\* Handler h applies the from_id side, or the to_id side, of the update in
\* its hand and goes on.
AppliesFrom(h) == pc[h] = "psc_from" /\ pc'[h] = "psc_to"
AppliesTo(h) == pc[h] = "psc_to" /\ pc'[h] = "loop"

\* C15: when a "connected" or "disconnected" PeerStateChange names an id
\* that has no record, the side that has a record is updated and the other
\* side changes nothing; no record is created, and the handler goes on to
\* its read loop; when neither id has a record the registry does not change.
C15_BestEffortPairing ==
  [][\A h \in Conn :
       /\ (pc[h] \in {"psc_from", "psc_to"} /\ pc'[h] # pc[h]) =>
            /\ AppliesFrom(h) \/ AppliesTo(h)
            /\ DOMAIN users' = DOMAIN users
       /\ (AppliesFrom(h) /\ Message(h).to_id \notin Registered) =>
            IF Message(h).from_id \in Registered
              THEN SideUpdated(Message(h).from_id, Message(h).state,
                               Message(h).to_id)
              ELSE users' = users
       /\ (AppliesTo(h) /\ Message(h).from_id \notin Registered) =>
            IF Message(h).to_id \in Registered
              THEN SideUpdated(Message(h).to_id, Message(h).state,
                               Message(h).from_id)
              ELSE users' = users
       /\ (AppliesFrom(h) /\ Message(h).from_id \notin Registered) =>
            users' = users
       /\ (AppliesTo(h) /\ Message(h).to_id \notin Registered) =>
            users' = users]_vars

\* A handler is back in its read loop after a "connected" update whose to_id
\* has no record: the absent id is in the sender's connections and has no
\* record.
C15_AbsentSide ==
  \E h \in Conn :
    /\ pc[h] = "loop"
    /\ cur[h] = WsText(to_string(PeerStateChange(my_id[h], AbsentId, "connected")))
    /\ my_id[h] \in Registered
    /\ AbsentId \in users[my_id[h]].connections
    /\ AbsentId \notin Registered

\* ---- removal and the pairings of the others
\* C16: once the handler of a connection has removed its record, no live
\* record has the id of that connection in its connections set.
C16_PairingCleanedUp ==
  \A h \in Conn :
    (pc[h] \in {"broadcast_end", "returned"} /\ my_id[h] \notin Registered) =>
      \A id \in Registered : Live(id) => my_id[h] \notin users[id].connections

\* ---- frames that are not routed
\* The text frames of the routing workload that do not decode, and those that
\* decode into a Welcome or a UserList.
NonRoutable ==
  {f \in RouteFrames :
     /\ f.ws = "Text"
     /\ \/ from_str(f.text) = {}
        \/ f.text.json.type \in {"Welcome", "UserList"}}

\* Handler h reads a frame that is not routed, or takes a step with such a
\* frame in hand.
NonRoutableStep(h) ==
  \/ \E f \in NonRoutable : Receive(h, f)
  \/ /\ cur[h] \in NonRoutable
     /\ pc[h] \in {"route", "psc_forward", "psc_from", "psc_to"}
     /\ pc'[h] # pc[h]

\* C17: reading a text frame that does not decode into a Message, or that
\* decodes into a Welcome or a UserList, enqueues nothing on any queue, writes
\* nothing, changes no connections set and no membership of the registry;
\* the sender stays registered and is in its read loop again, and nothing but
\* its last_activity has changed.
C17_NonRoutableIgnored ==
  [][\A h \in Conn :
       NonRoutableStep(h) =>
         /\ enq' = enq
         /\ chan' = chan
         /\ stream' = stream
         /\ rx_open' = rx_open
         /\ DOMAIN users' = DOMAIN users
         /\ my_id[h] \in DOMAIN users'
         /\ pc'[h] = "loop"
         /\ \A id \in Registered :
              /\ users'[id].connections = users[id].connections
              /\ users'[id].tx = users[id].tx
              /\ id # my_id[h] =>
                   users'[id].last_activity = users[id].last_activity]_vars

\* A registered handler is back in its read loop with the Welcome a client
\* sent as the last frame it read, and nothing but rosters was ever enqueued.
C17_InboundWelcome ==
  \E h \in Conn :
    /\ pc[h] = "loop"
    /\ cur[h] = WsText(to_string(Welcome(1)))
    /\ my_id[h] \in Registered
    /\ \A k \in Conn : \A i \in 1..Len(enq[k]) :
         enq[k][i].text.json.type = "UserList"

\* ---- idle timeout: MaxPeers clients connect, send pongs, binary frames and
\* frames for each other, or stay silent, while time passes and the heartbeat
\* and idle-timeout tasks run.  A timer is not late by a whole interval.
IdleFrames == {WsText(to_string(RTCOffer(1, 2, "x"))), WsPong, WsBinary}

Prompt ==
  \A h \in Conn :
    /\ timeout_task[h] = "running" => timeout_at[h] > now
    /\ heartbeat_task[h] = "running" => heartbeat_at[h] > now

NextIdle ==
  \/ \E h \in 1..MaxPeers :
       \/ Quiet /\ Accept(h)
       \/ Insert(h)
       \/ SendWelcome(h, TRUE)
       \/ BroadcastJoin(h)
       \/ \E f \in IdleFrames : frames < MaxIdleFrames /\ Receive(h, f)
       \/ Route(h)
       \/ Pong(h)
       \/ TimeoutStep(h)
       \/ Heartbeat(h)
  \/ Prompt /\ Tick

SpecIdle == Init /\ [][NextIdle]_vars

\* The idle-timeout task of h decides to evict, or removes the record.
Evicts(h) ==
  \/ timeout_task[h] = "running" /\ timeout_task'[h] = "wait_write"
  \/ /\ timeout_task[h] \in {"running", "wait_write"}
     /\ pc'[h] = pc[h]
     /\ my_id[h] \in Registered
     /\ my_id[h] \notin DOMAIN users'

\* The handler of h reads a frame, or handles a pong.
Inbound(h) ==
  \/ \E f \in IdleFrames : Receive(h, f)
  \/ Pong(h)

\* C18: the idle-timeout task of a connection evicts it only at a tick at
\* which the time since the record's last_activity is more than IdleTimeout;
\* every frame the handler of the connection reads sets last_activity to the
\* present time, and no other step changes it: not a frame enqueued for the
\* connection, not a ping.
C18_IdleTimeoutSafe ==
  [][\A h \in Conn :
       /\ Evicts(h) =>
            /\ now >= timeout_at[h] \/ timeout_task[h] = "wait_write"
            /\ now - users[my_id[h]].last_activity > IdleTimeout
       /\ (my_id[h] \in Registered /\ Inbound(h)) =>
            users'[my_id[h]].last_activity = now
       /\ (/\ my_id[h] \in Registered
           /\ my_id[h] \in DOMAIN users'
           /\ users'[my_id[h]].last_activity # users[my_id[h]].last_activity) =>
            Inbound(h)]_vars

\* At the third tick one connection, silent since it was accepted, is being
\* evicted while the other, which sent a frame in between and has pings in
\* its channel, has passed the check of that tick.
C18_SilentEvicted ==
  \E h \in Conn : \E k \in Conn :
    /\ Evicting(h)
    /\ timeout_task[k] = "running"
    /\ timeout_at[k] > now
    /\ my_id[k] \in Registered
    /\ users[my_id[k]].last_activity > 0
    /\ \E i \in 1..Len(enq[k]) : enq[k][i] = WsPing

\* ---- heartbeat
\* The heartbeat timer of h fires.
Fires(h) ==
  /\ heartbeat_task[h] = "running"
  /\ heartbeat_at'[h] # heartbeat_at[h]

\* C19: a firing of the heartbeat timer of a connection whose channel is open
\* enqueues exactly one ping on that channel and nothing on any other, and
\* the task goes on; a firing after the receiving end is gone enqueues nothing
\* and ends the task, and an ended task never fires or runs again.
C19_HeartbeatPings ==
  [][\A h \in Conn :
       /\ (Fires(h) /\ rx_open[h]) =>
            /\ enq'[h] = Append(enq[h], WsPing)
            /\ chan'[h] = Append(chan[h], WsPing)
            /\ \A k \in Conn \ {h} : enq'[k] = enq[k] /\ chan'[k] = chan[k]
            /\ heartbeat_task'[h] = "running"
       /\ (Fires(h) /\ ~rx_open[h]) =>
            /\ enq' = enq
            /\ chan' = chan
            /\ heartbeat_task'[h] = "done"
       /\ heartbeat_task[h] = "done" =>
            /\ heartbeat_task'[h] = "done"
            /\ heartbeat_at'[h] = heartbeat_at[h]]_vars

\* A heartbeat task has ended after it had enqueued a ping: its next firing
\* found the channel closed by a failed write.
C19_HeartbeatEnded ==
  \E h \in Conn :
    /\ heartbeat_task[h] = "done"
    /\ forward_task[h] = "done"
    /\ \E i \in 1..Len(enq[h]) : enq[h][i] = WsPing

\* ---- writers of the stream
\* C20: every frame written to the stream of a connection was taken from the
\* connection's channel by its dispatcher: what has been written is a prefix
\* of what was enqueued.
C20_SingleWriter == \A h \in Conn : IsPrefix(stream[h], enq[h])

\* ---- removal
\* The record of id was inserted by its handler and is no longer in the
\* registry: id has been removed.
Gone(id) ==
  /\ id \notin Registered
  /\ \E h \in Conn : my_id[h] = id /\ pc[h] \notin {"init", "insert"}

\* C21: an id that has been removed from the registry is not in the registry
\* after any step, whichever task takes it (the idle-timeout task, a handler
\* in its cleanup, a handler applying a pairing update that names the id);
\* and removing an id that has no record leaves the registry as it is.
C21_RemovalFinal ==
  [][/\ \A id \in Ids : Gone(id) => id \notin DOMAIN users'
     /\ \A id \in Ids \ Registered : remove(users, id) = users]_vars

\* A connection has been removed and its handler has returned, while another
\* handler is in the middle of a pairing update that names the removed id:
\* it has updated its own side and is about to update the side of the
\* removed id.
C21_NamedAfterRemoval ==
  \E h \in Conn : \E k \in Conn \ {h} :
    /\ pc[h] = "returned"
    /\ Gone(my_id[h])
    /\ pc[k] = "psc_to"
    /\ Message(k).to_id = my_id[h]
    /\ Message(k).from_id = my_id[k]
    /\ my_id[k] \in Registered
    /\ my_id[h] \in users[my_id[k]].connections

\* ---- the registry lock
\* The places at which a handler asks for the read or the write lock.
LockPoints ==
  {"insert", "broadcast", "psc_forward", "psc_from", "psc_to", "route", "pong",
   "close", "cleanup", "broadcast_end"}

\* C22: no task asks for the write lock while it holds a read guard, and
\* every request for the lock is granted: an idle-timeout task that waits for
\* the write lock gets it, and a handler that waits for the lock at any of
\* its lock points moves on.
C22_LockGranted ==
  /\ [](read_guards \cap write_waiters = {})
  /\ \A h \in 1..MaxPeers :
       /\ (timeout_task[h] = "wait_write") ~> (timeout_task[h] # "wait_write")
       /\ \A p \in LockPoints : (pc[h] = p) ~> (pc[h] # p)

\* ---- records of handlers that are gone
\* C23: whenever the handler of a connection has returned, on any path, the
\* id of that connection is not in the registry.
C23_NoGhostRecord ==
  \A h \in Conn : pc[h] = "returned" => my_id[h] \notin Registered

\* ---- close and pairing
\* C24: when a handler that read a Close frame removes its record, every live
\* connection whose connections set contains the closing id has been sent a
\* "disconnected" PeerStateChange from it.
C24_CloseAtomic ==
  [][\A h \in Conn :
       (Removed(h) /\ cur[h] = WsClose) =>
         \A k \in Conn \ {h} :
           (Live(my_id[k]) /\ my_id[h] \in users[my_id[k]].connections) =>
             Sent(k, Notice(my_id[h], my_id[k]))]_vars

\* ---- who may pair whom
\* C25: a handler changes a connections set, or delivers a PeerStateChange,
\* only for a frame whose from_id is the id of the connection it arrived on.
C25_PairingAuthority ==
  [][\A h \in Conn :
       (PairingStep(h) /\ (users' # users \/ enq' # enq)) =>
         Message(h).from_id = my_id[h]]_vars

\* C26: no record has its own id in its connections set.
C26_NoSelfPairing ==
  \A id \in Registered : id \notin users[id].connections

\* ---- the first frame
\* C27: the first frame written to the stream of a connection is the Welcome
\* that carries the connection's own id, whatever was enqueued for the
\* connection since its record was inserted.
C27_WelcomeFirst ==
  \A h \in Conn :
    stream[h] # <<>> => stream[h][1] = WsText(to_string(Welcome(my_id[h])))

\* A ping was enqueued for a connection before the roster of its own join,
\* and the stream has the Welcome first and the ping behind it.
C27_PingBehindWelcome ==
  \E h \in Conn :
    /\ Len(stream[h]) >= 2
    /\ enq[h][1] = WsPing
    /\ stream[h][1] = WsText(to_string(Welcome(my_id[h])))
    /\ stream[h][2] = WsPing

====
